---------------------------- MODULE Spec2Model ----------------------------
(***************************************************************************)
(* Model of the sync scheduler of opencode-session-backup (src/src/index.ts)*)
(*                                                                         *)
(* Program state: lastSyncTime, lastSyncSuccess, syncCount, syncTimeout,   *)
(* platform.  Environment: the wall clock `now` (Date.now(), milliseconds),*)
(* the file system seen by runSync (an input of each call) and the mirror  *)
(* subprocesses, which run for an arbitrary time (`inflight`).             *)
(*                                                                         *)
(* Observers (not program state): nRuns and lastUnforced log the runSync() *)
(* calls, `reply` is what the operation performed last in the current      *)
(* instant did and returned (it is forgotten when the clock advances), the *)
(* trigger observers record when triggers arrived.                         *)
(*                                                                         *)
(* JavaScript runs each handler to its first await without interleaving;   *)
(* an action is one such run-to-completion step.  setTimeout callbacks run *)
(* when their delay has elapsed: the clock does not pass a pending         *)
(* deadline (event-loop latency is below the clock's granularity).         *)
(***************************************************************************)
EXTENDS Integers, Sequences, FiniteSets

VARIABLES
    now,              \* Date.now()
    lastSyncTime,     \* index.ts:44, 0 = never
    lastSyncSuccess,  \* index.ts:45
    syncCount,        \* index.ts:46
    syncTimeout,      \* index.ts:43, the pending timer's deadline or NoTimer
    platform,         \* os.platform()
    inflight,         \* the mirror subprocesses being awaited: their callers, in start order
    nRuns,            \* observer: number of runSync() calls so far
    lastUnforced,     \* observer: when the latest mirror not due to force=true was spawned, 0 = none
    reply,            \* observer: outcome of the last operation of this instant
    firstTrigger,     \* observer: time of the first onTrigger, 0 = none
    lastTrigger,      \* observer: time of the latest onTrigger, 0 = none
    unitSpaced,       \* observer: every trigger came BurstTickMs after the one before
    lastArm,          \* observer: time of the latest onTrigger that armed the timer
    burstFirst,       \* observer: time of the onTrigger that armed the timer when none was pending
    unserved,         \* observer: a sync event arrived and no runSync() began since
    disk,             \* the file system: whether the source and the destination directories exist
    restores,         \* number of restore subprocesses being awaited
    armed,            \* the runtime's timer table: deadlines of the setTimeout timers not yet run or cleared
    res,              \* observer: the SyncResult the latest step produced
    okRuns,           \* observer: number of backup mirrors that ended with success = true
    shown,            \* observer: the size string of the latest session_backup_status call
    cleared           \* observer: deadline of the timer clearTimeout removed since a callback last ran

vars == <<now, lastSyncTime, lastSyncSuccess, syncCount, syncTimeout, platform,
          inflight, nRuns, lastUnforced, reply, firstTrigger, lastTrigger,
          unitSpaced, lastArm, burstFirst, unserved,
          disk, restores, armed, res, okRuns, shown, cleared>>

trigObs == <<firstTrigger, lastTrigger, unitSpaced, lastArm, burstFirst>>

\* the state that only the restore, result and status specifications follow
ext == <<disk, restores, armed, res, okRuns, shown, cleared>>

---------------------------------------------------------------------------
(* Program constants *)

SYNC_DEBOUNCE_MS == 30000

SYNC_DELAY_MS == 5000

MsPerSecond == 1000

\* syncTimeout = null
NoTimer == -1

\* a close event whose exit code is null (the subprocess was killed by a signal)
NullCode == -1

\* Date.now() when the plugin is loaded: far later than SYNC_DEBOUNCE_MS after
\* the epoch, so that lastSyncTime = 0 never closes the gate.
Epoch == 1000000

\* the backup path resolved at load (never empty: env, or the platform default)
destination == "backup"

Platforms == {"win32", "posix"}

syncEvents == {"message.updated", "session.deleted", "session.updated"}

EventTypes == syncEvents \cup {"session.idle"}

---------------------------------------------------------------------------
(* Bounds of the model *)

\* clock steps of the scheduler specification (each TickMs long)
MaxTicks == 13

\* clock steps of the trigger-burst specification (each BurstTickMs long)
MaxBurstTicks == 41

\* runSync() calls per behaviour
MaxRuns == 3

\* clock steps of the restore specification (each TickMs long)
MaxExtTicks == 3

\* restore subprocesses in flight at a time
MaxRestores == 1

\* largest exit code a subprocess ends with
MaxExitCode == 9

\* backup sizes are taken up to this many bytes around each unit boundary
MaxSizeOffset == 2

TickMs == SYNC_DELAY_MS \div 2

BurstTickMs == SYNC_DELAY_MS \div 5

---------------------------------------------------------------------------
(* The file system as one runSync() call finds it, and subprocess events *)

FsStates == [destExists : BOOLEAN, mkdirOk : BOOLEAN, srcExists : BOOLEAN]

ExitCodes == {0, 1, 7, 8, NullCode}

ProcEvents == [type : {"close"}, code : ExitCodes] \cup {[type |-> "error", code |-> NullCode]}

\* the file systems and subprocess events the scheduler is run against: one of
\* each outcome the scheduler can tell apart
FsCases ==
    {[destExists |-> TRUE, mkdirOk |-> TRUE, srcExists |-> TRUE],
     [destExists |-> TRUE, mkdirOk |-> TRUE, srcExists |-> FALSE],
     [destExists |-> FALSE, mkdirOk |-> FALSE, srcExists |-> TRUE]}

EndCases == {ev \in ProcEvents : ev.type = "error" \/ ev.code \in {0, 1, 8}}

\* one ending that is a success and one that is a failure on either platform
SchedEndings == {ev \in ProcEvents : ev.type = "close" /\ ev.code \in {0, 8}}

\* runSync, lines 60-78: the checks made before the subprocess is spawned
RunSyncPre(dest, fs) ==
    IF dest = "" THEN "NoPath"
    ELSE IF ~fs.destExists /\ ~fs.mkdirOk THEN "MkdirFailed"
    ELSE IF ~fs.srcExists THEN "NoSource"
    ELSE "Spawn"

\* rsync close handler: success: code === 0
RsyncSuccess(code) == code = 0

\* variant: robocopy's exit code 8 counts as success
RobocopySuccess_Through8(code) == code # NullCode /\ code <= 8

\* robocopy close handler: success: code !== null && code < 8
RobocopySuccess(code) == code # NullCode /\ code < 8

\* SyncResult.success of a spawned mirror that ended with event ev
SyncSuccess(plat, ev) ==
    IF ev.type = "error" THEN FALSE
    ELSE IF plat # "win32" THEN RsyncSuccess(ev.code)
    ELSE RobocopySuccess(ev.code)

\* Math.ceil(a / b) and Math.floor(a / b) for a >= 0, b > 0
CeilDiv(a, b) == (a + b - 1) \div b

FloorDiv(a, b) == a \div b

---------------------------------------------------------------------------
(* Observers *)

\* op: the operation; kind: what it did or returned; wait, ago: the numbers of
\* the "Sync skipped" message; last: lastSyncTime when the operation began;
\* gap: time since the latest unforced spawn when the operation began;
\* ran: runSync() (runRestore() for a restore) was called; busy: the callers
\* whose mirrors were in flight when the operation began; confirm: the
\* confirm argument of session_backup_restore.
NoReply ==
    [op |-> "none", force |-> FALSE, kind |-> "none", wait |-> 0, ago |-> 0,
     last |-> 0, gap |-> 0, ran |-> FALSE, busy |-> {}, confirm |-> FALSE]

Busy == {inflight[i] : i \in 1..Len(inflight)}

\* A SyncResult as observed: fn: the function that produced it; success;
\* err: which error text it carries ("none": the error field is undefined);
\* spawned: a subprocess was spawned; ev, code: the event that ended the
\* subprocess; srcMissing: the source directory did not exist at the call.
NoResult ==
    [fn |-> "none", success |-> FALSE, err |-> "none", spawned |-> FALSE,
     ev |-> "none", code |-> NullCode, srcMissing |-> FALSE]

\* no session_backup_status call yet
NoSize == [unit |-> "none", tenths |-> 0, decimals |-> 0, bytes |-> 0]

\* the sequence s without its i-th element
RemoveAt(s, i) == [k \in 1..(Len(s) - 1) |-> IF k < i THEN s[k] ELSE s[k + 1]]

---------------------------------------------------------------------------
(* Initial state: the module's initialisers, lines 41-46, after plugin load *)

Init ==
    /\ now = Epoch
    /\ lastSyncTime = 0
    /\ lastSyncSuccess = TRUE
    /\ syncCount = 0
    /\ syncTimeout = NoTimer
    /\ platform \in Platforms
    /\ inflight = <<>>
    /\ nRuns = 0
    /\ lastUnforced = 0
    /\ reply = NoReply
    /\ firstTrigger = 0
    /\ lastTrigger = 0
    /\ unitSpaced = TRUE
    /\ lastArm = 0
    /\ burstFirst = 0
    /\ unserved = FALSE
    /\ disk = [src |-> TRUE, dest |-> TRUE]
    /\ restores = 0
    /\ armed = <<>>
    /\ res = NoResult
    /\ okRuns = 0
    /\ shown = NoSize
    /\ cleared = NoTimer

---------------------------------------------------------------------------
(* scheduleSync, lines 197-223 *)

\* mutant of ScheduleGateClosed: the gate compares with the trigger delay
ScheduleGateClosed_WrongWindow(n, lst) == n - lst < SYNC_DELAY_MS

\* line 200: now - lastSyncTime < SYNC_DEBOUNCE_MS
ScheduleGateClosed(n, lst) == n - lst < SYNC_DEBOUNCE_MS

\* mutant of ArmDeadline: a pending timer is kept instead of being replaced
ArmDeadline_KeepPending(n, pending) ==
    IF pending # NoTimer THEN pending ELSE n + SYNC_DELAY_MS

\* lines 204-208 and 222: clearTimeout(pending), then setTimeout(..., SYNC_DELAY_MS)
ArmDeadline(n, pending) == n + SYNC_DELAY_MS

\* variant: a trigger arriving while the gate is closed re-arms the timer
ScheduleSync_RestartWhenClosed ==
    /\ syncTimeout' = ArmDeadline(now, syncTimeout)
    /\ reply' = [NoReply EXCEPT !.op = "trigger",
                                !.kind = IF ScheduleGateClosed(now, lastSyncTime)
                                         THEN "suppressed" ELSE "armed",
                                !.last = lastSyncTime, !.busy = Busy]

\* scheduleSync, lines 197-208
ScheduleSync ==
    IF ScheduleGateClosed(now, lastSyncTime)
    THEN /\ UNCHANGED syncTimeout
         /\ reply' = [NoReply EXCEPT !.op = "trigger", !.kind = "suppressed",
                                     !.last = lastSyncTime, !.busy = Busy]
    ELSE /\ syncTimeout' = ArmDeadline(now, syncTimeout)
         /\ reply' = [NoReply EXCEPT !.op = "trigger", !.kind = "armed",
                                     !.last = lastSyncTime, !.busy = Busy]

\* the event hook, lines 286-291
Event(type) ==
    /\ IF type \in syncEvents
       THEN /\ ScheduleSync
            /\ unserved' = TRUE
       ELSE UNCHANGED <<syncTimeout, reply, unserved>>
    /\ UNCHANGED <<now, lastSyncTime, lastSyncSuccess, syncCount, platform,
                   inflight, nRuns, lastUnforced, trigObs>>

\* the event hook on a sync event, with the trigger observers recording it
Trigger(type) ==
    /\ type \in syncEvents
    /\ ScheduleSync
    /\ unserved' = TRUE
    /\ firstTrigger' = IF firstTrigger = 0 THEN now ELSE firstTrigger
    /\ lastTrigger' = now
    /\ unitSpaced' = (unitSpaced /\ (lastTrigger = 0 \/ now - lastTrigger = BurstTickMs))
    /\ lastArm' = IF reply'.kind = "armed" THEN now ELSE lastArm
    /\ burstFirst' = IF reply'.kind = "armed" /\ syncTimeout = NoTimer THEN now ELSE burstFirst
    /\ UNCHANGED <<now, lastSyncTime, lastSyncSuccess, syncCount, platform,
                   inflight, nRuns, lastUnforced>>

---------------------------------------------------------------------------
(* runSync as called by the timer callback and by session_backup_sync *)

\* The synchronous part of runSync (lines 57-88 / 111-122) and, when it returns
\* before spawning, the caller's continuation (lines 214, 312).
StartRun(origin, fs) ==
    /\ nRuns' = nRuns + 1
    /\ IF RunSyncPre(destination, fs) = "Spawn"
       THEN /\ inflight' = Append(inflight, origin)
            /\ lastUnforced' = IF origin = "force" THEN lastUnforced ELSE now
            /\ UNCHANGED <<lastSyncSuccess, syncCount>>
       ELSE /\ lastSyncSuccess' = FALSE
            /\ UNCHANGED <<inflight, lastUnforced, syncCount>>

\* what the caller of runSync holds right after the call
StartKind(fs) == IF RunSyncPre(destination, fs) = "Spawn" THEN "awaiting" ELSE "failed"

GapSince(t) == IF t = 0 THEN SYNC_DEBOUNCE_MS ELSE now - t

\* the timer callback, lines 208-213
TimerFire(fs) ==
    /\ syncTimeout # NoTimer
    /\ now >= syncTimeout
    /\ nRuns < MaxRuns
    /\ syncTimeout' = NoTimer
    /\ lastSyncTime' = now
    /\ StartRun("timer", fs)
    /\ reply' = [NoReply EXCEPT !.op = "fire", !.kind = StartKind(fs),
                                !.last = lastSyncTime, !.gap = GapSince(lastUnforced),
                                !.ran = TRUE, !.busy = Busy]
    /\ unserved' = FALSE
    /\ UNCHANGED <<now, platform, trigObs>>

\* mutant of SyncGate: args.force is ignored
SyncGate_ForceIgnored(n, lst, force) ==
    [last |-> lst, skip |-> (n - lst < SYNC_DEBOUNCE_MS)]

\* session_backup_sync.execute, lines 300-305: the force reset and the gate
SyncGate(n, lst, force) ==
    LET l == IF force THEN 0 ELSE lst IN
    [last |-> l, skip |-> (n - l < SYNC_DEBOUNCE_MS /\ ~force)]

\* mutant of WaitTime: the remaining wait is rounded down
WaitTime_Floor(n, lst) == FloorDiv(SYNC_DEBOUNCE_MS - (n - lst), MsPerSecond)

\* line 306: Math.ceil((SYNC_DEBOUNCE_MS - (now - lastSyncTime)) / 1000)
WaitTime(n, lst) == CeilDiv(SYNC_DEBOUNCE_MS - (n - lst), MsPerSecond)

\* line 307: Math.floor((now - lastSyncTime) / 1000)
AgoSeconds(n, lst) == FloorDiv(n - lst, MsPerSecond)

\* session_backup_sync.execute, lines 299-311
SyncNow(force, fs) ==
    LET g == SyncGate(now, lastSyncTime, force) IN
    /\ IF g.skip
       THEN /\ lastSyncTime' = g.last
            /\ reply' = [NoReply EXCEPT !.op = "sync", !.force = force, !.kind = "skipped",
                                        !.wait = WaitTime(now, g.last),
                                        !.ago = AgoSeconds(now, g.last),
                                        !.last = lastSyncTime, !.busy = Busy]
            /\ UNCHANGED <<lastSyncSuccess, syncCount, inflight, nRuns, lastUnforced, unserved>>
       ELSE /\ nRuns < MaxRuns
            /\ lastSyncTime' = now
            /\ StartRun(IF force THEN "force" ELSE "sync", fs)
            /\ reply' = [NoReply EXCEPT !.op = "sync", !.force = force, !.kind = StartKind(fs),
                                        !.last = lastSyncTime, !.gap = GapSince(lastUnforced),
                                        !.ran = TRUE, !.busy = Busy]
            /\ unserved' = FALSE
    /\ UNCHANGED <<now, syncTimeout, platform, trigObs>>

\* variant: syncCount counts every finished mirror
MirrorDone_CountAll(i, ev) ==
    /\ i \in 1..Len(inflight)
    /\ LET ok == SyncSuccess(platform, ev) IN
       /\ lastSyncSuccess' = ok
       /\ syncCount' = syncCount + 1
       /\ inflight' = RemoveAt(inflight, i)
       /\ reply' = [NoReply EXCEPT !.op = IF inflight[i] = "timer" THEN "done" ELSE "return",
                                   !.force = (inflight[i] = "force"),
                                   !.kind = IF ok THEN "complete" ELSE "failed",
                                   !.last = lastSyncTime, !.ran = TRUE, !.busy = Busy]
    /\ UNCHANGED <<now, lastSyncTime, syncTimeout, platform, nRuns, lastUnforced,
                   trigObs, unserved>>

\* The i-th mirror in flight ends with event ev: the close/error handler resolves
\* the promise (lines 93-109, 127-144) and the awaiting caller continues
\* (lines 214-221 for the timer, 312-319 for session_backup_sync).
MirrorDone(i, ev) ==
    /\ i \in 1..Len(inflight)
    /\ LET ok == SyncSuccess(platform, ev) IN
       /\ lastSyncSuccess' = ok
       /\ syncCount' = IF ok THEN syncCount + 1 ELSE syncCount
       /\ inflight' = RemoveAt(inflight, i)
       /\ reply' = [NoReply EXCEPT !.op = IF inflight[i] = "timer" THEN "done" ELSE "return",
                                   !.force = (inflight[i] = "force"),
                                   !.kind = IF ok THEN "complete" ELSE "failed",
                                   !.last = lastSyncTime, !.ran = TRUE, !.busy = Busy]
    /\ UNCHANGED <<now, lastSyncTime, syncTimeout, platform, nRuns, lastUnforced,
                   trigObs, unserved>>

\* The clock advances by d, up to the horizon and not past a pending deadline.
Tick(d, horizon) ==
    /\ now + d <= Epoch + horizon
    /\ syncTimeout = NoTimer \/ now + d <= syncTimeout
    /\ now' = now + d
    /\ reply' = NoReply
    /\ UNCHANGED <<lastSyncTime, lastSyncSuccess, syncCount, syncTimeout, platform,
                   inflight, nRuns, lastUnforced, trigObs, unserved>>

---------------------------------------------------------------------------
(* Specifications *)

\* every operation of the scheduler, clock steps of TickMs
Next ==
    \/ \E type \in EventTypes : Event(type) /\ UNCHANGED ext
    \/ \E fs \in FsCases : TimerFire(fs) /\ UNCHANGED ext
    \/ \E force \in BOOLEAN, fs \in FsCases : SyncNow(force, fs) /\ UNCHANGED ext
    \/ \E i \in 1..MaxRuns, ev \in EndCases : MirrorDone(i, ev) /\ UNCHANGED ext
    \/ Tick(TickMs, MaxTicks * TickMs) /\ UNCHANGED ext

Spec == Init /\ [][Next]_vars

\* as Spec, without session_backup_sync calls that pass force=true
NextUnforced ==
    \/ \E type \in EventTypes : Event(type) /\ UNCHANGED ext
    \/ \E fs \in FsCases : TimerFire(fs) /\ UNCHANGED ext
    \/ \E fs \in FsCases : SyncNow(FALSE, fs) /\ UNCHANGED ext
    \/ \E i \in 1..MaxRuns, ev \in EndCases : MirrorDone(i, ev) /\ UNCHANGED ext
    \/ Tick(TickMs, MaxTicks * TickMs) /\ UNCHANGED ext

SpecUnforced == Init /\ [][NextUnforced]_vars

\* A burst of triggers and no session_backup_sync call, clock steps of
\* BurstTickMs; the clock of the burst starts with its first trigger.
NextBurst ==
    \/ \E type \in syncEvents : Trigger(type) /\ UNCHANGED ext
    \/ \E fs \in FsCases : TimerFire(fs) /\ UNCHANGED ext
    \/ \E i \in 1..MaxRuns, ev \in EndCases : MirrorDone(i, ev) /\ UNCHANGED ext
    \/ firstTrigger # 0 /\ Tick(BurstTickMs, MaxBurstTicks * BurstTickMs) /\ UNCHANGED ext

SpecBurst == Init /\ [][NextBurst]_vars

---------------------------------------------------------------------------
(* runRestore and session_backup_restore, lines 149-195 and 323-339 *)

Disks == [src : BOOLEAN, dest : BOOLEAN]

\* every way a subprocess can end: close with an exit code or null, or error
AllEndings ==
    [type : {"close"}, code : (0..MaxExitCode) \cup {NullCode}]
        \cup {[type |-> "error", code |-> NullCode]}

\* what runSync finds on disk; mk: whether a mkdirSync would succeed
FsOf(d, mk) == [destExists |-> d.dest, mkdirOk |-> mk, srcExists |-> d.src]

\* runSync, lines 64-74: mkdirSync(destination) when it does not exist
DiskAfterSync(dest, d, mk) ==
    IF dest # "" /\ ~d.dest /\ mk THEN [d EXCEPT !.dest = TRUE] ELSE d

\* runRestore, lines 152-162: the checks made before the subprocess is spawned
RunRestorePre(dest, d, mk) ==
    IF dest = "" \/ ~d.dest THEN "NoBackup"
    ELSE IF ~d.src /\ ~mk THEN "MkdirFailed"
    ELSE "Spawn"

\* runRestore, lines 156-162: mkdirSync(source) when it does not exist
DiskAfterRestore(dest, d, mk) ==
    IF dest # "" /\ d.dest /\ ~d.src /\ mk THEN [d EXCEPT !.src = TRUE] ELSE d

\* runSync close handlers, lines 99 and 134: the error field
RsyncError(code) == IF code # 0 THEN "ExitCode" ELSE "none"

RobocopyError(code) == IF code # NullCode /\ code >= 8 THEN "ExitCode" ELSE "none"

\* the SyncResult of a spawned backup mirror that ended with event ev
SyncResultOf(plat, ev) ==
    [NoResult EXCEPT !.fn = "backup", !.spawned = TRUE, !.ev = ev.type, !.code = ev.code,
                     !.success = SyncSuccess(plat, ev),
                     !.err = IF ev.type = "error" THEN "SpawnError"
                             ELSE IF plat # "win32" THEN RsyncError(ev.code)
                             ELSE RobocopyError(ev.code)]

\* runRestore close handlers, lines 170-172 and 184-186
RestoreRsyncSuccess(code) == code = 0

RestoreRobocopySuccess(code) == code # NullCode /\ code < 8

RestoreRsyncError(code) == IF code # 0 THEN "ExitCode" ELSE "none"

RestoreRobocopyError(code) == IF code # NullCode /\ code >= 8 THEN "ExitCode" ELSE "none"

\* the SyncResult of a spawned restore mirror that ended with event ev
RestoreResultOf(plat, ev) ==
    [NoResult EXCEPT !.fn = "restore", !.spawned = TRUE, !.ev = ev.type, !.code = ev.code,
                     !.success = IF ev.type = "error" THEN FALSE
                                 ELSE IF plat # "win32" THEN RestoreRsyncSuccess(ev.code)
                                 ELSE RestoreRobocopySuccess(ev.code),
                     !.err = IF ev.type = "error" THEN "SpawnError"
                             ELSE IF plat # "win32" THEN RestoreRsyncError(ev.code)
                             ELSE RestoreRobocopyError(ev.code)]

\* variant: runRestore() is called without confirmation too
RestoreRuns_NoConfirm(confirm, n, lst) == TRUE

\* variant: restore goes through the debounce gate of session_backup_sync
RestoreRuns_Debounced(confirm, n, lst) == confirm /\ ~(n - lst < SYNC_DEBOUNCE_MS)

\* session_backup_restore.execute, lines 329-333: runRestore() is called unless
\* confirm is missing; neither the clock nor lastSyncTime is looked at
RestoreRuns(confirm, n, lst) == confirm

\* session_backup_restore.execute up to its await, lines 328-333, with
\* runRestore's synchronous part, lines 149-166 / 180
Restore(confirm, mk) ==
    /\ IF ~RestoreRuns(confirm, now, lastSyncTime)
       THEN /\ reply' = [NoReply EXCEPT !.op = "restore", !.kind = "needs-confirm",
                                        !.confirm = confirm, !.last = lastSyncTime,
                                        !.busy = Busy]
            /\ res' = NoResult
            /\ UNCHANGED <<disk, restores>>
       ELSE LET pre == RunRestorePre(destination, disk, mk) IN
            /\ disk' = DiskAfterRestore(destination, disk, mk)
            /\ IF pre = "Spawn"
               THEN /\ restores < MaxRestores
                    /\ restores' = restores + 1
                    /\ res' = NoResult
               ELSE /\ res' = [NoResult EXCEPT !.fn = "restore", !.err = pre,
                                               !.srcMissing = ~disk.src]
                    /\ UNCHANGED restores
            /\ reply' = [NoReply EXCEPT !.op = "restore", !.confirm = confirm,
                                        !.kind = IF pre = "Spawn" THEN "awaiting" ELSE "failed",
                                        !.last = lastSyncTime, !.ran = TRUE, !.busy = Busy]
    /\ UNCHANGED <<now, lastSyncTime, lastSyncSuccess, syncCount, syncTimeout, platform,
                   inflight, nRuns, lastUnforced, trigObs, unserved, armed, okRuns, shown,
                   cleared>>

\* variant: a finished restore is booked like a finished backup
RestoreDone_Bookkeeping(ev) ==
    /\ restores > 0
    /\ restores' = restores - 1
    /\ res' = RestoreResultOf(platform, ev)
    /\ lastSyncSuccess' = res'.success
    /\ syncCount' = IF res'.success THEN syncCount + 1 ELSE syncCount
    /\ reply' = [NoReply EXCEPT !.op = "restored", !.confirm = TRUE, !.ran = TRUE,
                                !.kind = IF res'.success THEN "complete" ELSE "failed",
                                !.last = lastSyncTime, !.busy = Busy]
    /\ UNCHANGED <<now, lastSyncTime, syncTimeout, platform, inflight, nRuns,
                   lastUnforced, trigObs, unserved, disk, armed, okRuns, shown,
                   cleared>>

\* a restore subprocess ends with event ev and session_backup_restore returns,
\* lines 168-192 and 334-337
RestoreDone(ev) ==
    /\ restores > 0
    /\ restores' = restores - 1
    /\ res' = RestoreResultOf(platform, ev)
    /\ reply' = [NoReply EXCEPT !.op = "restored", !.confirm = TRUE, !.ran = TRUE,
                                !.kind = IF res'.success THEN "complete" ELSE "failed",
                                !.last = lastSyncTime, !.busy = Busy]
    /\ UNCHANGED <<now, lastSyncTime, lastSyncSuccess, syncCount, syncTimeout, platform,
                   inflight, nRuns, lastUnforced, trigObs, unserved, disk, armed,
                   okRuns, shown, cleared>>

---------------------------------------------------------------------------
(* The scheduler's operations with the file system, the runtime's timer  *)
(* table and the SyncResults followed                                    *)

\* variant: the pending timer is not cleared
ClearTimeout_Missing(table, h) == table

\* clearTimeout(h), lines 204-206: the timer h leaves the table
ClearTimeout(table, h) ==
    IF h = NoTimer THEN table
    ELSE IF \E k \in 1..Len(table) : table[k] = h
         THEN RemoveAt(table, CHOOSE k \in 1..Len(table) : table[k] = h)
         ELSE table

\* the event hook; setTimeout adds the new timer to the table
ExtEvent(type) ==
    /\ Event(type)
    /\ armed' = IF type \in syncEvents /\ reply'.kind = "armed"
                THEN Append(ClearTimeout(armed, syncTimeout), syncTimeout')
                ELSE armed
    /\ cleared' = IF type \in syncEvents /\ reply'.kind = "armed" /\ syncTimeout # NoTimer
                  THEN syncTimeout
                  ELSE cleared
    /\ res' = NoResult
    /\ UNCHANGED <<disk, restores, okRuns, shown>>

\* what the synchronous part of runSync leaves behind when it was called
AfterRunSync(mk) ==
    /\ disk' = DiskAfterSync(destination, disk, mk)
    /\ res' = IF RunSyncPre(destination, FsOf(disk, mk)) = "Spawn" THEN NoResult
              ELSE [NoResult EXCEPT !.fn = "backup",
                                    !.err = RunSyncPre(destination, FsOf(disk, mk)),
                                    !.srcMissing = ~disk.src]

\* the k-th timer of the table is due and its callback runs
ExtTimerFire(k, mk) ==
    /\ armed[k] <= now
    /\ TimerFire(FsOf(disk, mk))
    /\ armed' = RemoveAt(armed, k)
    /\ cleared' = NoTimer
    /\ AfterRunSync(mk)
    /\ UNCHANGED <<restores, okRuns, shown>>

ExtSyncNow(force, mk) ==
    /\ SyncNow(force, FsOf(disk, mk))
    /\ IF reply'.ran THEN AfterRunSync(mk) ELSE res' = NoResult /\ UNCHANGED disk
    /\ UNCHANGED <<restores, armed, okRuns, shown, cleared>>

ExtMirrorDone(i, ev) ==
    /\ MirrorDone(i, ev)
    /\ res' = SyncResultOf(platform, ev)
    /\ okRuns' = IF res'.success THEN okRuns + 1 ELSE okRuns
    /\ UNCHANGED <<disk, restores, armed, shown, cleared>>

\* directories are created or removed behind the plugin's back
DiskChange(d) ==
    /\ d # disk
    /\ disk' = d
    /\ reply' = [NoReply EXCEPT !.op = "env"]
    /\ res' = NoResult
    /\ UNCHANGED <<now, lastSyncTime, lastSyncSuccess, syncCount, syncTimeout, platform,
                   inflight, nRuns, lastUnforced, trigObs, unserved, restores, armed,
                   okRuns, shown, cleared>>

ExtTick ==
    /\ Tick(TickMs, MaxExtTicks * TickMs)
    /\ res' = NoResult
    /\ UNCHANGED <<disk, restores, armed, okRuns, shown, cleared>>

\* the scheduler and restore with both directories in place, clock steps of
\* TickMs
NextExt ==
    \/ \E type \in EventTypes : ExtEvent(type)
    \/ \E k \in 1..Len(armed), mk \in BOOLEAN : ExtTimerFire(k, mk)
    \/ \E force \in BOOLEAN, mk \in BOOLEAN : ExtSyncNow(force, mk)
    \/ \E i \in 1..MaxRuns, ev \in SchedEndings : ExtMirrorDone(i, ev)
    \/ \E confirm \in BOOLEAN, mk \in BOOLEAN : Restore(confirm, mk)
    \/ \E ev \in SchedEndings : RestoreDone(ev)
    \/ ExtTick

SpecExt == Init /\ [][NextExt]_vars

\* session_backup_sync and session_backup_restore against every file system and
\* every way a subprocess ends; the clock stands still
NextMirror ==
    \/ \E force \in BOOLEAN, mk \in BOOLEAN : ExtSyncNow(force, mk)
    \/ \E i \in 1..MaxRuns, ev \in AllEndings : ExtMirrorDone(i, ev)
    \/ \E confirm \in BOOLEAN, mk \in BOOLEAN : Restore(confirm, mk)
    \/ \E ev \in AllEndings : RestoreDone(ev)
    \/ \E d \in Disks : DiskChange(d)

SpecMirror == Init /\ [][NextMirror]_vars

---------------------------------------------------------------------------
(* getBackupStats and session_backup_status, lines 225-267 and 341-363 *)

\* line 254
units == <<"B", "KB", "MB", "GB">>

\* line 257: size >= 1024, size /= 1024
UnitBase == 1024

RECURSIVE Pow1024(_)
Pow1024(k) == IF k = 0 THEN 1 ELSE UnitBase * Pow1024(k - 1)

\* lines 255-260: the number of divisions the loop makes, counted from k; size
\* is total / 1024^k there, so size >= 1024 is total >= 1024^(k+1)
RECURSIVE UnitIndexFrom(_, _)
UnitIndexFrom(total, k) ==
    IF k < Len(units) - 1 /\ total >= Pow1024(k + 1)
    THEN UnitIndexFrom(total, k + 1)
    ELSE k

\* (r / u).toFixed(1) in tenths for 0 <= r < u, u a power of 1024: the nearest
\* tenth, the larger one on a tie; the quotient is exact in a double. The
\* dividend is split so that no intermediate value leaves 32 bits.
RoundTenths(r, u) ==
    IF u = 1 THEN 0
    ELSE IF u = UnitBase THEN (10 * r + u \div 2) \div u
    ELSE (10 * (r \div UnitBase) + u \div (2 * UnitBase) + (10 * (r % UnitBase)) \div UnitBase)
             \div (u \div UnitBase)

\* line 264: size.toFixed(1), in tenths, for size = total / u
ToFixed1(total, u) == 10 * (total \div u) + RoundTenths(total % u, u)

\* lines 254-264: the size string of a destination holding total bytes; the
\* string always has one decimal
FormatSize(total) ==
    LET k == UnitIndexFrom(total, 0) IN
    [unit |-> units[k + 1], tenths |-> ToFixed1(total, Pow1024(k)), decimals |-> 1,
     bytes |-> total]

\* lines 226-228: "0 B" when there is no destination directory
GetBackupStats(dest, d, total) ==
    IF dest = "" \/ ~d.dest
    THEN [unit |-> "B", tenths |-> 0, decimals |-> 0, bytes |-> 0]
    ELSE FormatSize(total)

\* total sizes of the session files: around every unit boundary, and the sizes
\* 3072 (3.0 KB), 1280 (1.25 KB, a tie of toFixed) and 512 bytes short of 1 MB
Sizes ==
    {n \in {m * Pow1024(j) + d : m \in {1, 3, 5, 512, 1023}, j \in 0..2,
                                 d \in (0 - MaxSizeOffset)..MaxSizeOffset}
           \cup {Pow1024(3) + d : d \in (0 - MaxSizeOffset)..MaxSizeOffset}
           \cup {0, 1280, Pow1024(2) - 512} : n >= 0}

\* session_backup_status.execute, lines 344-361, for a destination whose session
\* files add up to total bytes
Status(total) ==
    /\ shown' = GetBackupStats(destination, disk, total)
    /\ reply' = [NoReply EXCEPT !.op = "status", !.last = lastSyncTime, !.busy = Busy]
    /\ res' = NoResult
    /\ UNCHANGED <<now, lastSyncTime, lastSyncSuccess, syncCount, syncTimeout, platform,
                   inflight, nRuns, lastUnforced, trigObs, unserved, disk, restores,
                   armed, okRuns, cleared>>

\* session_backup_status against destinations of every size
NextStats ==
    \/ \E total \in Sizes : Status(total)
    \/ \E d \in Disks : DiskChange(d)

SpecStats == Init /\ [][NextStats]_vars

---------------------------------------------------------------------------
(* Claims *)

\* C1: at most one backup-direction mirror subprocess is in flight at any
\* time, whatever the interleaving of triggers, timer firings and
\* session_backup_sync calls (forced or not).
C1_AtMostOneInFlight == Len(inflight) <= 1

\* C2: two mirrors spawned by the debounce timer or by a call with
\* force=false begin at least SYNC_DEBOUNCE_MS apart (reply.gap is the time
\* since the previous such spawn, SYNC_DEBOUNCE_MS when there was none).
C2_UnforcedStartsDebounced ==
    (reply.op \in {"fire", "sync"} /\ ~reply.force /\ reply.kind = "awaiting")
        => reply.gap >= SYNC_DEBOUNCE_MS

\* C3: with triggers only, every runSync() call of the timer comes at least
\* SYNC_DEBOUNCE_MS after the previous one (at most one per debounce window),
\* and a burst whose triggers all fall within SYNC_DEBOUNCE_MS of its first
\* has caused exactly one call once no timer is pending (ten triggers at
\* t = 0, 1, ..., 9 yield exactly one).
C3_OneMirrorPerWindow ==
    /\ reply.op = "fire" => now - reply.last >= SYNC_DEBOUNCE_MS
    /\ (firstTrigger # 0 /\ lastTrigger - firstTrigger < SYNC_DEBOUNCE_MS
            /\ syncTimeout = NoTimer) => nRuns = 1

\* C3 witness: ten triggers at t = 0, 1, ..., 9 s, the timer has fired, one call.
C3_Witness ==
    /\ unitSpaced
    /\ firstTrigger = Epoch
    /\ lastTrigger = Epoch + 9 * BurstTickMs
    /\ syncTimeout = NoTimer
    /\ nRuns = 1
    /\ reply.op = "fire"

\* C4: every sync event is followed by a mirror invocation that starts after
\* it.  Only the timer callback and session_backup_sync call runSync(), and
\* the timer callback runs only for a pending timer; if the host makes no
\* further call, an event is followed by a mirror exactly when a timer is
\* pending.  So: whenever an event is not yet followed by a runSync() call,
\* a timer is pending.
C4_EveryEventScheduled == unserved => syncTimeout # NoTimer

\* C5: a call with force=false made while the mirror of an earlier
\* session_backup_sync call is still awaited is skipped and does not call
\* runSync(), however long that mirror has been running.
C5_ConcurrentSyncSkipped ==
    (reply.op = "sync" /\ ~reply.force /\ reply.busy \cap {"sync", "force"} # {})
        => (reply.kind = "skipped" /\ ~reply.ran)

\* C6: the timer callback never starts a mirror while a mirror of
\* session_backup_sync is in flight, and a call with force=false never
\* starts one while a timer-driven mirror is in flight.
C6_TimerAndSyncExclusive ==
    \A i, j \in 1..Len(inflight) :
        i < j => /\ ~(inflight[j] = "timer" /\ inflight[i] \in {"sync", "force"})
                 /\ ~(inflight[j] = "sync" /\ inflight[i] = "timer")

\* C7 as stated: the timer callback runs SYNC_DELAY_MS after the first
\* trigger of the burst (the one that armed the timer when none was pending),
\* whatever triggers follow before it fires.
C7_DelayFromFirstTrigger == reply.op = "fire" => now = burstFirst + SYNC_DELAY_MS

\* C7 amended: the timer callback runs SYNC_DELAY_MS after the latest trigger
\* that arrived with the gate open: each such trigger cancels the pending
\* timer and arms a new one.
C7_DelayFromLastArm == reply.op = "fire" => now = lastArm + SYNC_DELAY_MS

\* C7 witness: ten triggers at t = 0, 1, ..., 9 s; the mirror starts at t = 14 s.
C7_Witness ==
    /\ reply.op = "fire"
    /\ unitSpaced
    /\ firstTrigger = Epoch
    /\ lastTrigger = Epoch + 9 * BurstTickMs
    /\ now = Epoch + 14 * BurstTickMs
    /\ now # burstFirst + SYNC_DELAY_MS

\* C8: a call with force=true calls runSync() and is never skipped, whatever
\* lastSyncTime is, with or without a pending timer or a mirror in flight.
C8_ForceNeverSkipped ==
    (reply.op = "sync" /\ reply.force) => (reply.ran /\ reply.kind # "skipped")

\* C8 witness: a forced call that ran with the gate closed, a timer pending and
\* a mirror in flight.
C8_Witness ==
    /\ reply.op = "sync"
    /\ reply.force
    /\ reply.ran
    /\ reply.last # 0
    /\ now - reply.last < SYNC_DEBOUNCE_MS
    /\ syncTimeout # NoTimer
    /\ reply.busy # {}

\* C9: a call with force=false made when 0 <= now - lastSyncTime <
\* SYNC_DEBOUNCE_MS is skipped, does not call runSync(), and reports as wait
\* the least whole number of seconds covering the rest of the window
\* (20 when 10 s of it have passed).
C9_SkipWait ==
    (reply.op = "sync" /\ ~reply.force /\ 0 <= now - reply.last
            /\ now - reply.last < SYNC_DEBOUNCE_MS)
        => LET rest == SYNC_DEBOUNCE_MS - (now - reply.last) IN
           /\ reply.kind = "skipped"
           /\ ~reply.ran
           /\ reply.wait * MsPerSecond >= rest
           /\ (reply.wait - 1) * MsPerSecond < rest
           /\ (now - reply.last = 10 * MsPerSecond => reply.wait = 20)

\* C9 witness: a call skipped 7.5 s into the window, told to wait 23 s.
C9_Witness ==
    /\ reply.op = "sync"
    /\ reply.kind = "skipped"
    /\ now - reply.last = 3 * TickMs
    /\ reply.wait = 23

\* C10: after a failed mirror attempt the scheduler is ready for the next
\* trigger: a trigger that arrives when the latest attempt has failed and no
\* mirror is in flight schedules a new mirror invocation.
C10_TriggerAfterFailureSchedules ==
    (reply.op = "trigger" /\ ~lastSyncSuccess /\ Len(inflight) = 0)
        => syncTimeout # NoTimer

\* C11: restoreNow(confirm=false) only reports that confirmation is needed: the
\* step calls no runRestore(), spawns no subprocess, creates no directory and
\* changes nothing on disk, whatever the state it is called in.
C11_UnconfirmedRestoreInert ==
    [][(reply'.op = "restore" /\ ~reply'.confirm)
          => /\ reply'.kind = "needs-confirm"
             /\ ~reply'.ran
             /\ res' = NoResult
             /\ UNCHANGED <<disk, restores, inflight, nRuns>>]_vars

\* an unconfirmed restore was answered while the source directory was missing
\* and a backup existed (a confirmed one would have created the directory)
C11_Witness ==
    /\ reply.op = "restore" /\ ~reply.confirm /\ reply.kind = "needs-confirm"
    /\ ~disk.src /\ disk.dest

\* C12: restoreNow with confirmation is never debounced: whatever lastSyncTime
\* and the pending timer are, runRestore() is called and the answer is never
\* "skipped".
C12_ConfirmedRestoreRuns ==
    (reply.op = "restore" /\ reply.confirm)
        => (reply.ran /\ reply.kind \in {"awaiting", "failed"})

\* a confirmed restore ran while the gate was closed, a timer was pending and a
\* backup mirror was in flight
C12_Witness ==
    /\ reply.op = "restore" /\ reply.confirm /\ reply.ran
    /\ now - lastSyncTime < SYNC_DEBOUNCE_MS
    /\ syncTimeout # NoTimer
    /\ inflight # <<>>

\* C13: whatever the destination is (existing, absent and creatable, absent and
\* not creatable), a backup mirror called while the source directory does not
\* exist returns success = false with the "Source not found" error and spawns
\* no subprocess.
C13_MissingSourceReported ==
    (res.fn = "backup" /\ res.srcMissing)
        => (~res.success /\ ~res.spawned /\ res.err = "NoSource")

\* C14: a subprocess that closed counts as a success exactly for robocopy exit
\* codes 0..7 on win32 and exactly for rsync exit code 0 elsewhere, for backups
\* and for restores.
C14_ExitCodeNormalization ==
    (res.spawned /\ res.ev = "close")
        => (res.success <=> IF platform = "win32" THEN res.code \in 0..7
                                                  ELSE res.code = 0)

\* a restore's robocopy closed with exit code 7 and the result is a success
C14_Witness ==
    /\ platform = "win32"
    /\ res.fn = "restore" /\ res.spawned /\ res.ev = "close" /\ res.code = 7
    /\ res.success

\* C15: the backup size is shown in the unit (B, KB, MB, GB, 1024-based) that
\* brings the displayed magnitude below 1024 (and to 1 or more above bytes),
\* with one decimal place, and with none when the unit is bytes.
C15_SizeRendering ==
    shown.unit # "none"
        => /\ shown.tenths < 10 * UnitBase
           /\ shown.unit # "B" => shown.tenths >= 10
           /\ shown.decimals = IF shown.unit = "B" THEN 0 ELSE 1

\* C16: a trigger that arrives while the gate is closed does nothing: it arms
\* no timer, leaves a pending timer as it is, and leaves lastSyncTime,
\* lastSyncSuccess and syncCount unchanged.
C16_SuppressedTriggerInert ==
    [][(reply'.op = "trigger" /\ ScheduleGateClosed(now, lastSyncTime))
          => /\ reply'.kind = "suppressed"
             /\ UNCHANGED <<syncTimeout, armed, cleared, lastSyncTime, lastSyncSuccess,
                            syncCount, inflight, nRuns>>]_vars

\* a trigger was suppressed while a timer was pending, and the timer is still
\* in the timer table
C16_Witness ==
    /\ reply.op = "trigger" /\ reply.kind = "suppressed"
    /\ syncTimeout # NoTimer
    /\ armed = <<syncTimeout>>

\* C17: at most one debounce timer is armed, and it is the one syncTimeout
\* holds, so a timer superseded by a later trigger never runs its callback;
\* a started subprocess leaves flight only by ending: no operation cancels it.
C17_OneTimerNoCancel ==
    /\ [](armed = IF syncTimeout = NoTimer THEN <<>> ELSE <<syncTimeout>>)
    /\ [][/\ Len(inflight') < Len(inflight) => reply'.op \in {"done", "return"}
          /\ restores' < restores => reply'.op = "restored"
          /\ reply'.op = "fire" => (syncTimeout # NoTimer /\ now = syncTimeout)]_vars

\* a timer was superseded, its deadline has passed without any mirror having
\* been started, and the timer that replaced it is due
C17_Witness ==
    /\ cleared # NoTimer /\ cleared < now
    /\ armed = <<syncTimeout>> /\ syncTimeout = now
    /\ nRuns = 0 /\ inflight = <<>>

\* C18: syncCount is the number of backup mirrors that ended with success =
\* true: it never decreases and only the end of a successful backup mirror
\* changes it, not a failed mirror, a skipped call, a suppressed trigger or a
\* restore.
C18_SyncCountCountsSuccesses ==
    /\ [](syncCount = okRuns)
    /\ [][/\ syncCount' >= syncCount
          /\ syncCount' # syncCount
                => (reply'.op \in {"done", "return"} /\ reply'.kind = "complete")]_vars

\* three backup mirrors ran, one of them succeeded, and a restore has just
\* succeeded: syncCount is 1
C18_Witness ==
    /\ nRuns = 3 /\ inflight = <<>>
    /\ syncCount = 1
    /\ reply.op = "restored" /\ reply.kind = "complete"

\* C19: every SyncResult with success = false carries an error description,
\* whatever way the subprocess ended (failing exit code, null exit code, spawn
\* error) on both platforms.
C19_FailureCarriesError ==
    (res.fn # "none" /\ ~res.success) => res.err # "none"

\* C20: a restore call, confirmed or not, failed or not, leaves lastSyncTime,
\* lastSyncSuccess, syncCount and the pending timer as they are; a backup
\* mirror in flight does not keep a confirmed restore from running.
C20_RestoreLeavesScheduler ==
    /\ []((reply.op = "restore" /\ reply.confirm /\ reply.busy # {}) => reply.ran)
    /\ [][reply'.op \in {"restore", "restored"}
            => UNCHANGED <<lastSyncTime, lastSyncSuccess, syncCount, syncTimeout,
                           armed, inflight, nRuns>>]_vars

\* a restore failed while the gate was closed, a timer was pending, a backup
\* mirror was in flight and the last backup had succeeded
C20_Witness ==
    /\ reply.op = "restored" /\ reply.kind = "failed"
    /\ now - lastSyncTime < SYNC_DEBOUNCE_MS
    /\ syncTimeout # NoTimer
    /\ inflight # <<>>
    /\ lastSyncSuccess /\ syncCount = 1

====
